---- MODULE Spec2Model ----
(***************************************************************************)
(* disable-victron-bluetooth.py as a state machine.                        *)
(*                                                                         *)
(* The system state is what the script reads and changes: the Venus OS     *)
(* version file, the two localsettings values, the state file under /data, *)
(* /proc/mounts, the mode bits of the ten known script paths, and the      *)
(* daemontools status of the two services.  One action models one          *)
(* statement or external call of disable_victron_ble / restore_victron_ble.*)
(* Every external call chooses its outcome: "ok", "fail" (a non-zero       *)
(* return code, or an OSError that the code catches) or "raise" (an        *)
(* OSError out of subprocess.run, which nothing in the script catches).    *)
(* The script is taken to run as root (it mounts, and chmods files under   *)
(* /opt), so os.access(path, X_OK) holds when any execute bit is set.      *)
(* Reading and writing the state file under /data is taken to succeed.     *)
(***************************************************************************)
EXTENDS Integers, Sequences, FiniteSets, TLC

\* ---------------------------------------------------------------- bounds
MaxRuns == 2
MaxFaults == 1

\* ------------------------------------------------------------- constants
SERVICES == <<"dbus-ble-sensors", "vesmart-server">>

DBUS_SETTINGS == <<"BleSensors", "Bluetooth">>

SettingKeys == {DBUS_SETTINGS[k] : k \in 1..Len(DBUS_SETTINGS)}

ServiceNames == {SERVICES[k] : k \in 1..Len(SERVICES)}

\* The five paths of _all_scripts(name), in its order, as <<name, kind>>.
ScriptKinds == <<"service_run", "opt_service_run", "opt_templates_run",
                 "start_ble_sensors", "name_sh">>

AllScripts(name) == [k \in 1..Len(ScriptKinds) |-> <<name, ScriptKinds[k]>>]

Paths == {AllScripts(n)[k] : n \in ServiceNames, k \in 1..Len(ScriptKinds)}

\* /service is tmpfs; every other script path lives on the root partition.
OnRoot(path) == path[2] # "service_run"

XBits == {"u", "g", "o"}

Absent == [e |-> FALSE, x |-> {}]

File(bits) == [e |-> TRUE, x |-> bits]

\* os.path.isfile(path) and os.access(path, os.X_OK), as root.
IsFile(f) == f.e

AccessX(f) == f.e /\ f.x # {}

\* ---------------------------------------------------- the state file text
\* A line is a sequence of tokens: a word, "=", " ", a sign or a digit.
DigitChar == <<"0", "1", "2", "3", "4", "5", "6", "7", "8", "9">>

DigitVal == ("0" :> 0) @@ ("1" :> 1) @@ ("2" :> 2) @@ ("3" :> 3) @@ ("4" :> 4)
            @@ ("5" :> 5) @@ ("6" :> 6) @@ ("7" :> 7) @@ ("8" :> 8) @@ ("9" :> 9)

RECURSIVE Digits(_)
Digits(n) == IF n < 10 THEN <<DigitChar[n + 1]>>
             ELSE Digits(n \div 10) \o <<DigitChar[(n % 10) + 1]>>

\* Mutant: the sign is lost.
FormatInt_NoSign(n) == Digits(IF n < 0 THEN -n ELSE n)

\* f"{val}" of an int.
FormatInt(n) == IF n < 0 THEN <<"-">> \o Digits(-n) ELSE Digits(n)

\* f"{key}={val}\n", without the newline.
FormatLine(key, val) == <<key, "=">> \o FormatInt(val)

RECURSIVE LStrip(_)
LStrip(s) == IF s # <<>> /\ Head(s) = " " THEN LStrip(Tail(s)) ELSE s

RECURSIVE RStrip(_)
RStrip(s) == IF s # <<>> /\ s[Len(s)] = " " THEN RStrip(SubSeq(s, 1, Len(s) - 1)) ELSE s

Strip(s) == RStrip(LStrip(s))

RECURSIVE DigitsValue(_, _)
DigitsValue(s, acc) == IF s = <<>> THEN acc
                       ELSE DigitsValue(Tail(s), 10 * acc + DigitVal[Head(s)])

AllDigits(s) == s # <<>> /\ \A k \in 1..Len(s) : s[k] \in DOMAIN DigitVal

\* int(val): surrounding blanks, an optional sign, then decimal digits;
\* anything else is a ValueError (ok = FALSE).
ParseInt(val) ==
    LET t == Strip(val)
        signed == t # <<>> /\ Head(t) \in {"-", "+"}
        body == IF signed THEN Tail(t) ELSE t
    IN  IF AllDigits(body)
        THEN [ok |-> TRUE,
              n |-> IF signed /\ Head(t) = "-" THEN -DigitsValue(body, 0)
                    ELSE DigitsValue(body, 0)]
        ELSE [ok |-> FALSE, n |-> 0]

\* The index of the first "=" of a line, 0 when it has none.
RECURSIVE FirstEq(_, _)
FirstEq(s, k) == IF k > Len(s) THEN 0
                 ELSE IF s[k] = "=" THEN k ELSE FirstEq(s, k + 1)

\* "=" in line, and the two halves of line.split("=", 1).
HasEq(line) == FirstEq(line, 1) # 0

SplitKey(line) == SubSeq(line, 1, FirstEq(line, 1) - 1)

SplitVal(line) == SubSeq(line, FirstEq(line, 1) + 1, Len(line))

\* One pass of the loop of _load_saved_settings over a line.
LoadLine(saved, rawline) ==
    LET line == Strip(rawline)
        key == SplitKey(line)
        parsed == ParseInt(SplitVal(line))
    IN  IF ~HasEq(line) \/ ~parsed.ok THEN saved
        ELSE [k \in DOMAIN saved \cup {key} |->
                 IF k = key THEN parsed.n ELSE saved[k]]

RECURSIVE LoadLines(_, _)
LoadLines(saved, lines) == IF lines = <<>> THEN saved
                           ELSE LoadLines(LoadLine(saved, Head(lines)), Tail(lines))

NoFile == [e |-> FALSE, lines |-> <<>>]

EmptyDict == [k \in {} |-> 0]

\* _load_saved_settings: a dict from the key text (a token sequence) to an int.
LoadSavedSettings(sf) == IF sf.e THEN LoadLines(EmptyDict, sf.lines) ELSE EmptyDict

\* saved.get(key, 1)
DefaultSetting == 1

\* Mutant: a missing key is restored as 0.
SavedGet_DefaultOff(saved, key) == IF <<key>> \in DOMAIN saved THEN saved[<<key>>] ELSE 0

SavedGet(saved, key) == IF <<key>> \in DOMAIN saved THEN saved[<<key>>] ELSE DefaultSetting

\* The text _save_settings writes for the values it could read.
RECURSIVE SavedLines(_, _)
SavedLines(values, k) ==
    IF k > Len(DBUS_SETTINGS) THEN <<>>
    ELSE (IF DBUS_SETTINGS[k] \in DOMAIN values
          THEN <<FormatLine(DBUS_SETTINGS[k], values[DBUS_SETTINGS[k]])>>
          ELSE <<>>) \o SavedLines(values, k + 1)

\* ------------------------------------------------------------ /proc/mounts
MountLine(mp, opts) == [mp |-> mp, opts |-> opts]

\* _is_root_ro: the first line whose mount point is "/" decides.
RECURSIVE IsRootRoFrom(_, _)
IsRootRoFrom(mnt, k) == IF k > Len(mnt) THEN FALSE
                        ELSE IF mnt[k].mp = "/" THEN "ro" \in mnt[k].opts
                        ELSE IsRootRoFrom(mnt, k + 1)

IsRootRo(mnt) == IsRootRoFrom(mnt, 1)

\* mount -o remount,<mode> /
Remount(mnt, mode) ==
    [k \in 1..Len(mnt) |->
        IF mnt[k].mp = "/"
        THEN MountLine("/", (mnt[k].opts \ {"ro", "rw"}) \cup {mode})
        ELSE mnt[k]]

\* ------------------------------------------------------------------ state
VARIABLES
    venus,      \* /opt/victronenergy/version is a file
    settings,   \* localsettings: key -> value
    stateFile,  \* STATE_FILE: [e |-> exists, lines |-> its text]
    mounts,     \* /proc/mounts
    files,      \* script path -> [e |-> exists, x |-> execute bits]
    up,         \* service name -> svstat reports it up
    svcDir,     \* service name -> /service/<name> is a directory
    pc,         \* position in the running function
    op,         \* "disable" | "restore" | "none"
    idx,        \* index of the for loop over DBUS_SETTINGS or _all_scripts
    sidx,       \* index of the for loop over SERVICES
    values,     \* the dict _save_settings builds
    saved,      \* the dict restore_victron_ble loads
    didRemount, \* _RootRemount._did_remount
    exc,        \* an exception is propagating out of the with block
    runs,       \* invocations started so far
    faults,     \* calls that failed or raised so far
    log,        \* the external calls of the current invocation, in order
    snap0,      \* the system state when the current invocation started
    snapPrev,   \* the system state when the previous invocation started
    prevOp,     \* the previous invocation's op
    prevEnd     \* the previous invocation's final pc

sysvars == <<venus, settings, stateFile, mounts, files, up, svcDir>>

history == <<runs, faults, log, snap0, snapPrev, prevOp, prevEnd>>

vars == <<venus, settings, stateFile, mounts, files, up, svcDir,
          pc, op, idx, sidx, values, saved, didRemount, exc,
          runs, faults, log, snap0, snapPrev, prevOp, prevEnd>>

Sys == [settings |-> settings, stateFile |-> stateFile, mounts |-> mounts,
        files |-> files, up |-> up]

\* An external call as the log keeps it: the call, its arguments, the value
\* it carries, its outcome, and whether the state already was what the call
\* asks for.
Ev(c, a, v, o, r) == [c |-> c, a |-> a, v |-> v, o |-> o, r |-> r]

\* Mutant: a failed call ends the function too.
Propagates_AnyFailure(o) == o # "ok"

\* The outcomes that leave the function as an exception: an OSError out of
\* subprocess.run.  Return codes are tested or ignored, and the OSError of
\* os.stat / os.chmod is caught in _chmod_off and _chmod_on.
Propagates(o) == o = "raise"

Logged(e) == log' = Append(log, e)

\* The outcomes a call may have while the fault budget lasts.
Outcomes(kinds) == IF faults < MaxFaults THEN kinds ELSE {"ok"}

Charge(o) == faults' = IF o = "ok" THEN faults ELSE faults + 1

Ended == pc \in {"done", "fatal", "raised"}

CurName == SERVICES[sidx]

CurKey == DBUS_SETTINGS[idx]

CurPath == AllScripts(CurName)[idx]

\* ------------------------------------------------------------ initial state
RoRoot == <<MountLine("/", {"ro", "relatime"}), MountLine("/data", {"rw", "relatime"})>>

RwRoot == <<MountLine("/data", {"rw", "relatime"}), MountLine("/", {"rw", "relatime"})>>

\* A stock device: every script the OS ships is executable.
StockFile(path) ==
    IF path[2] \in {"service_run", "opt_service_run"} THEN File(XBits)
    ELSE IF path[1] = "dbus-ble-sensors" /\ path[2] = "start_ble_sensors" THEN File({"u"})
    ELSE IF path[1] = "vesmart-server" /\ path[2] = "name_sh" THEN File(XBits)
    ELSE Absent

StockFiles == [p \in Paths |-> StockFile(p)]

InitLocals ==
    /\ pc = "idle" /\ op = "none" /\ idx = 1 /\ sidx = 1
    /\ values = EmptyDict /\ saved = EmptyDict
    /\ didRemount = FALSE /\ exc = FALSE
    /\ runs = 0 /\ faults = 0 /\ log = <<>>
    /\ prevOp = "none" /\ prevEnd = "none"

InitSnaps == snap0 = Sys /\ snapPrev = Sys

\* A device on which scripts were already made non-executable by hand.
OddFiles == [StockFiles EXCEPT ![<<"dbus-ble-sensors", "opt_service_run">>] = File({}),
                               ![<<"vesmart-server", "service_run">>] = File({})]

\* A device on which /service/vesmart-server is not linked.
UnlinkedFiles == [StockFiles EXCEPT ![<<"vesmart-server", "service_run">>] = Absent]

AllOn == [k \in SettingKeys |-> 1]

AllUp == [n \in ServiceNames |-> TRUE]

\* State files found at the start: one an earlier disable wrote, a hand-edited
\* one, one with a single good key, one with a key written several times.
InitialStateFiles ==
    {[e |-> TRUE, lines |-> <<<<"BleSensors", "=", "1">>, <<"Bluetooth", "=", "0">>>>],
     [e |-> TRUE, lines |-> <<<<"BleSensors", " ", "=", "0">>, <<"Bluetooth", "=", " ", "1", "0", " ">>,
                              <<"junk">>>>],
     [e |-> TRUE, lines |-> <<<<"Bluetooth", "=", "-", "1">>, <<"BleSensors", "=", "o", "n">>>>],
     [e |-> TRUE, lines |-> <<<<"BleSensors", "=", "0">>, <<"BleSensors", "=", "+", "1", "0">>,
                              <<"BleSensors", "=", "1", "=", "0">>, <<"=", "1">>>>]}

SettingsOf(b, t) == [k \in SettingKeys |-> IF k = "BleSensors" THEN b ELSE t]

\* The settings at the start: each is off, on, or one of two other values.
InitialSettings == {SettingsOf(-1, 0), SettingsOf(0, 1), SettingsOf(1, 1),
                    SettingsOf(1, 10), SettingsOf(10, -1)}

\* The settings vary on a stock device.
InitBus ==
    /\ settings \in InitialSettings
    /\ stateFile = NoFile
    /\ mounts = RoRoot /\ files = StockFiles /\ svcDir = AllUp /\ up = AllUp

\* A state file is already there.
InitStateFile ==
    /\ settings = [k \in SettingKeys |-> 0]
    /\ stateFile \in InitialStateFiles
    /\ mounts = RoRoot /\ files = StockFiles /\ svcDir = AllUp /\ up = AllUp

\* The file system and the services vary.
InitFs ==
    /\ settings = AllOn
    /\ stateFile = NoFile
    /\ mounts \in {RoRoot, RwRoot}
    /\ \/ /\ files \in {StockFiles, OddFiles}
          /\ svcDir = AllUp
          /\ up \in {AllUp, [n \in ServiceNames |-> FALSE]}
       \/ /\ files = UnlinkedFiles
          /\ svcDir = [AllUp EXCEPT !["vesmart-server"] = FALSE]
          /\ up = [AllUp EXCEPT !["vesmart-server"] = FALSE]

Init ==
    /\ venus \in BOOLEAN
    /\ InitBus \/ InitStateFile \/ InitFs
    /\ InitLocals /\ InitSnaps

\* ----------------------------------------------------------------- actions
\* python3 disable-victron-bluetooth.py [--restore]
Start(o) ==
    /\ pc = "idle" \/ Ended
    /\ runs < MaxRuns
    /\ runs' = runs + 1
    /\ op' = o /\ pc' = "require"
    /\ idx' = 1 /\ sidx' = 1 /\ values' = EmptyDict /\ saved' = EmptyDict
    /\ didRemount' = FALSE /\ exc' = FALSE
    /\ log' = <<>>
    /\ snap0' = Sys /\ snapPrev' = snap0
    /\ prevOp' = op /\ prevEnd' = pc
    /\ UNCHANGED <<sysvars, faults>>

\* Mutant: the host is never checked.
is_venus_os_Always == TRUE

\* is_venus_os
is_venus_os == venus

\* _require_venus_os: SystemExit off Venus OS.
RequireVenusOs ==
    /\ pc = "require"
    /\ pc' = IF ~is_venus_os THEN "fatal"
             ELSE IF op = "disable" THEN "save_get" ELSE "load"
    /\ UNCHANGED <<sysvars, op, idx, sidx, values, saved, didRemount, exc, history>>

\* _save_settings, one pass of its loop: val = _dbus_get(path).
SaveGet ==
    /\ pc = "save_get"
    /\ \E o \in Outcomes({"ok", "fail", "raise"}) :
        /\ Charge(o)
        /\ Logged(Ev("GetValue", <<CurKey>>, 0, o, FALSE))
        /\ values' = IF o = "ok"
                     THEN [k \in DOMAIN values \cup {CurKey} |->
                              IF k = CurKey THEN settings[CurKey] ELSE values[k]]
                     ELSE values
        /\ IF Propagates(o) THEN pc' = "raised" /\ idx' = idx
           ELSE IF idx < Len(DBUS_SETTINGS) THEN pc' = "save_get" /\ idx' = idx + 1
           ELSE pc' = "save_write" /\ idx' = 1
    /\ UNCHANGED <<sysvars, op, sidx, saved, didRemount, exc,
                   runs, snap0, snapPrev, prevOp, prevEnd>>

\* _save_settings, after the loop: write the file when a value was read.
SaveWrite ==
    /\ pc = "save_write"
    /\ IF values # EmptyDict
       THEN LET new == [e |-> TRUE, lines |-> SavedLines(values, 1)]
            IN  /\ stateFile' = new
                /\ Logged(Ev("write_state", <<>>, 0, "ok", stateFile = new))
       ELSE UNCHANGED <<stateFile, log>>
    /\ pc' = "set" /\ idx' = 1
    /\ UNCHANGED <<venus, settings, mounts, files, up, svcDir, op, sidx, values, saved,
                   didRemount, exc, runs, faults, snap0, snapPrev, prevOp, prevEnd>>

\* restore_victron_ble: saved = _load_saved_settings()
Load ==
    /\ pc = "load"
    /\ saved' = LoadSavedSettings(stateFile)
    /\ pc' = "set" /\ idx' = 1
    /\ UNCHANGED <<sysvars, op, sidx, values, didRemount, exc, history>>

\* The value the loop over DBUS_SETTINGS writes for a key.
SetTarget(key) == IF op = "disable" THEN 0 ELSE SavedGet(saved, key)

\* One pass of the loop over DBUS_SETTINGS: _dbus_set(path, value).
SetSetting ==
    /\ pc = "set"
    /\ \E o \in Outcomes({"ok", "fail", "raise"}) :
        /\ Charge(o)
        /\ Logged(Ev("SetValue", <<CurKey>>, SetTarget(CurKey), o,
                     settings[CurKey] = SetTarget(CurKey)))
        /\ settings' = IF o = "ok" THEN [settings EXCEPT ![CurKey] = SetTarget(CurKey)]
                       ELSE settings
        /\ IF Propagates(o) THEN pc' = "raised" /\ idx' = idx
           ELSE IF idx < Len(DBUS_SETTINGS) THEN pc' = "set" /\ idx' = idx + 1
           ELSE pc' = "enter" /\ idx' = 1
    /\ UNCHANGED <<venus, stateFile, mounts, files, up, svcDir, op, sidx, values, saved,
                   didRemount, exc, runs, snap0, snapPrev, prevOp, prevEnd>>

\* The first statement of disable_service / restore_service.
ServiceEntry == IF op = "disable" THEN "svstat" ELSE "chmod"

\* _RootRemount.__enter__
Enter ==
    /\ pc = "enter"
    /\ IF IsRootRo(mounts)
       THEN \E o \in Outcomes({"ok", "fail", "raise"}) :
               /\ Charge(o)
               /\ Logged(Ev("mount", <<"rw">>, 0, o, ~IsRootRo(mounts)))
               /\ mounts' = IF o = "ok" THEN Remount(mounts, "rw") ELSE mounts
               /\ didRemount' = (o = "ok")
               /\ pc' = IF Propagates(o) THEN "raised" ELSE ServiceEntry
       ELSE /\ pc' = ServiceEntry
            /\ UNCHANGED <<mounts, didRemount, faults, log>>
    /\ sidx' = 1 /\ idx' = 1
    /\ UNCHANGED <<venus, settings, stateFile, files, up, svcDir, op, values, saved, exc,
                   runs, snap0, snapPrev, prevOp, prevEnd>>

\* After the last statement of disable_service / restore_service.
NextService ==
    IF sidx < Len(SERVICES)
    THEN pc' = ServiceEntry /\ sidx' = sidx + 1 /\ idx' = 1
    ELSE pc' = "exit" /\ sidx' = sidx /\ idx' = 1

\* Mutant: the exception leaves the block without __exit__ running.
RaiseInBlock_NoExit == pc' = "raised" /\ exc' = TRUE /\ UNCHANGED <<idx, sidx>>

\* An exception inside the with block: __exit__ runs, then it propagates.
RaiseInBlock == pc' = "exit" /\ exc' = TRUE /\ UNCHANGED <<idx, sidx>>

\* disable_service: if _is_service_up(name)
Svstat ==
    /\ pc = "svstat"
    /\ \E o \in Outcomes({"ok", "fail", "raise"}) :
        /\ Charge(o)
        /\ Logged(Ev("svstat", <<CurName>>, 0, o, FALSE))
        /\ IF Propagates(o) THEN RaiseInBlock
           ELSE /\ pc' = IF o = "ok" /\ up[CurName] THEN "svc_d" ELSE "chmod"
                /\ UNCHANGED <<idx, sidx, exc>>
    /\ UNCHANGED <<sysvars, op, values, saved, didRemount,
                   runs, snap0, snapPrev, prevOp, prevEnd>>

\* disable_service: _run(["svc", "-d", ...])
SvcDown ==
    /\ pc = "svc_d"
    /\ \E o \in Outcomes({"ok", "fail", "raise"}) :
        /\ Charge(o)
        /\ Logged(Ev("svc -d", <<CurName>>, 0, o, ~up[CurName]))
        /\ up' = IF o = "ok" THEN [up EXCEPT ![CurName] = FALSE] ELSE up
        /\ IF Propagates(o) THEN RaiseInBlock
           ELSE pc' = "chmod" /\ UNCHANGED <<idx, sidx, exc>>
    /\ UNCHANGED <<venus, settings, stateFile, mounts, files, svcDir, op, values, saved,
                   didRemount, runs, snap0, snapPrev, prevOp, prevEnd>>

\* Mutant: every file is chmod-ed, executable or not.
NeedsOff_Ungated(f) == IsFile(f)

\* The conditions of the two chmod loops.
NeedsOff(f) == IsFile(f) /\ AccessX(f)

NeedsOn(f) == IsFile(f) /\ ~AccessX(f)

NeedsChmod(f) == IF op = "disable" THEN NeedsOff(f) ELSE NeedsOn(f)

\* st.st_mode & ~(S_IXUSR | S_IXGRP | S_IXOTH) and st.st_mode | S_IXUSR | ...
ChmodOffMode(x) == x \ XBits

\* Mutant: only the owner's execute bit is set.
ChmodOnMode_UserOnly(x) == x \cup {"u"}

ChmodOnMode(x) == x \cup XBits

ChmodMode(x) == IF op = "disable" THEN ChmodOffMode(x) ELSE ChmodOnMode(x)

\* os.chmod on the root partition fails (EROFS) while it is mounted read-only.
ChmodOutcomes(path) ==
    IF OnRoot(path) /\ IsRootRo(mounts) THEN {"erofs"} ELSE Outcomes({"ok", "fail"})

\* After the chmod loop of the current service.
AfterChmodLoop ==
    IF idx < Len(ScriptKinds) THEN pc' = "chmod" /\ idx' = idx + 1 /\ sidx' = sidx
    ELSE IF op = "disable" THEN NextService
    ELSE pc' = "svc_u" /\ idx' = 1 /\ sidx' = sidx

\* One pass of the loop over _all_scripts(name): the test, then _chmod_off or
\* _chmod_on, whose OSError is caught and logged.
Chmod ==
    /\ pc = "chmod"
    /\ LET f == files[CurPath]
           probe == Ev("check", CurPath, 0, "ok", FALSE)
       IN  IF NeedsChmod(f)
           THEN \E o \in ChmodOutcomes(CurPath) :
                   /\ faults' = IF o = "fail" THEN faults + 1 ELSE faults
                   /\ ~Propagates(o)
                   /\ log' = log \o <<probe, Ev("chmod", CurPath, 0, o,
                                               ~f.e \/ ChmodMode(f.x) = f.x)>>
                   /\ files' = IF o = "ok"
                               THEN [files EXCEPT ![CurPath] = File(ChmodMode(f.x))]
                               ELSE files
           ELSE /\ Logged(probe)
                /\ UNCHANGED <<files, faults>>
    /\ AfterChmodLoop
    /\ UNCHANGED <<venus, settings, stateFile, mounts, up, svcDir, op, values, saved,
                   didRemount, exc, runs, snap0, snapPrev, prevOp, prevEnd>>

\* daemontools starts a service whose run script it can execute.
Startable(name) == AccessX(files[<<name, "service_run">>])

\* restore_service: if os.path.isdir(...): _run(["svc", "-u", ...])
SvcUp ==
    /\ pc = "svc_u"
    /\ IF svcDir[CurName]
       THEN \E o \in Outcomes({"ok", "fail", "raise"}) :
               /\ Charge(o)
               /\ Logged(Ev("svc -u", <<CurName>>, 0, o, up[CurName]))
               /\ up' = IF o = "ok" /\ Startable(CurName)
                        THEN [up EXCEPT ![CurName] = TRUE] ELSE up
               /\ IF Propagates(o) THEN RaiseInBlock
                  ELSE NextService /\ exc' = exc
       ELSE /\ Logged(Ev("isdir", <<CurName>>, 0, "ok", FALSE))
            /\ NextService
            /\ UNCHANGED <<up, faults, exc>>
    /\ UNCHANGED <<venus, settings, stateFile, mounts, files, svcDir, op, values, saved,
                   didRemount, runs, snap0, snapPrev, prevOp, prevEnd>>

\* Where the function goes after the with statement.
AfterWith == IF exc THEN "raised" ELSE IF op = "disable" THEN "done" ELSE "remove"

\* Mutant: __exit__ remounts read-only whether or not __enter__ remounted.
ShouldRestoreRo_Always == TRUE

\* __exit__: if self._did_remount
ShouldRestoreRo == didRemount

\* _RootRemount.__exit__
Exit ==
    /\ pc = "exit"
    /\ IF ShouldRestoreRo
       THEN \E o \in Outcomes({"ok", "fail", "raise"}) :
               /\ Charge(o)
               /\ Logged(Ev("mount", <<"ro">>, 0, o, IsRootRo(mounts)))
               /\ mounts' = IF o = "ok" THEN Remount(mounts, "ro") ELSE mounts
               /\ didRemount' = Propagates(o)
               /\ pc' = IF Propagates(o) THEN "raised" ELSE AfterWith
       ELSE /\ pc' = AfterWith
            /\ UNCHANGED <<mounts, didRemount, faults, log>>
    /\ UNCHANGED <<venus, settings, stateFile, files, up, svcDir, op, idx, sidx, values,
                   saved, exc, runs, snap0, snapPrev, prevOp, prevEnd>>

\* restore_victron_ble: if os.path.isfile(STATE_FILE): os.remove(STATE_FILE)
Remove ==
    /\ pc = "remove"
    /\ IF stateFile.e
       THEN /\ stateFile' = NoFile
            /\ Logged(Ev("remove", <<>>, 0, "ok", ~stateFile.e))
       ELSE UNCHANGED <<stateFile, log>>
    /\ pc' = "done"
    /\ UNCHANGED <<venus, settings, mounts, files, up, svcDir, op, idx, sidx, values,
                   saved, didRemount, exc, runs, faults, snap0, snapPrev, prevOp,
                   prevEnd>>

\* One step of the invocation that is running.
Step ==
    \/ RequireVenusOs
    \/ SaveGet
    \/ SaveWrite
    \/ Load
    \/ SetSetting
    \/ Enter
    \/ Svstat
    \/ SvcDown
    \/ Chmod
    \/ SvcUp
    \/ Exit
    \/ Remove

Next ==
    \/ \E o \in {"disable", "restore"} : Start(o)
    \/ Step

Spec == Init /\ [][Next]_vars

\* ------------------------------------------------------------------ claims
\* The current invocation is o2, it has returned normally, and the one before
\* it was o1 and returned normally too.
Pair(o1, o2) == pc = "done" /\ op = o2 /\ prevOp = o1 /\ prevEnd = "done"

\* No external call has failed or raised so far.
NoFault == faults = 0

Calls(c) == {k \in 1..Len(log) : log[k].c = c}

CallsOn(c, a) == {k \in Calls(c) : log[k].a = a}

\* C1, as stated: after disable_victron_ble() then restore_victron_ble(), with no
\* call failing, each setting and each script path's execute permission is
\* what it was before the disable.
C1_RoundTripOriginal ==
    (Pair("disable", "restore") /\ NoFault) =>
        /\ settings = snapPrev.settings
        /\ \A p \in Paths : AccessX(files[p]) = AccessX(snapPrev.files[p])

\* C1, amended: after disable then restore with no call failing, each setting
\* is what it was before the disable, and every script path that exists has
\* all its execute bits set, whatever its permission was before; a path that
\* does not exist still does not.
C1_RoundTrip ==
    (Pair("disable", "restore") /\ NoFault) =>
        /\ settings = snapPrev.settings
        /\ \A p \in Paths :
              files[p] = IF IsFile(snapPrev.files[p]) THEN File(XBits) ELSE Absent

C1_Witness ==
    /\ Pair("disable", "restore") /\ NoFault
    /\ snapPrev.settings["BleSensors"] = 10 /\ snapPrev.settings["Bluetooth"] = -1
    /\ snap0.settings = [k \in SettingKeys |-> 0]
    /\ \A p \in Paths : ~AccessX(snap0.files[p])

\* C2, as stated: a second disable_victron_ble(), or a second
\* restore_victron_ble(), leaves the settings, the execute bits, the running
\* status and the state file as the first one left them.
C2_Idempotent ==
    ((Pair("disable", "disable") \/ Pair("restore", "restore")) /\ NoFault) =>
        Sys = snap0

\* C3, as stated: in a re-run of the operation that has just completed, no
\* SetValue, state-file write, svc command or chmod is issued when the state
\* already is what the call asks for.
C3_NoRedundantWritesOriginal ==
    (op = prevOp /\ prevEnd = "done" /\ NoFault) =>
        \A k \in 1..Len(log) :
            log[k].c \in {"SetValue", "write_state", "svc -d", "svc -u", "chmod"}
                => ~log[k].r

\* C3, amended: a chmod is issued only for a path whose mode it changes and
\* svc -d only for a service that is up, so a re-run of the operation that
\* has just completed issues neither; the SetValue calls, the state-file
\* write and svc -u are not gated.
C3_GatedWrites ==
    /\ \A k \in Calls("chmod") \cup Calls("svc -d") : ~log[k].r
    /\ (op = prevOp /\ prevEnd = "done" /\ NoFault) =>
           Calls("chmod") \cup Calls("svc -d") = {}

C3_Witness ==
    /\ Pair("disable", "disable") /\ NoFault
    /\ \E p \in Paths : AccessX(snapPrev.files[p]) /\ OnRoot(p)
    /\ \E n \in ServiceNames : snapPrev.up[n]
    /\ \E k \in Calls("SetValue") : log[k].r

\* C4, as stated: an invocation that starts with root read-only ends, normally
\* or by an exception, with root read-only.
C4_RootRoRestoredOriginal ==
    (pc \in {"done", "raised"} /\ IsRootRo(snap0.mounts)) => IsRootRo(mounts)

\* C4, amended: an invocation that starts with root read-only ends, normally or
\* by an exception, with root read-only unless the read-only remount command
\* itself did not succeed.
C4_RootRoRestored ==
    (pc \in {"done", "raised"} /\ IsRootRo(snap0.mounts)) =>
        \/ IsRootRo(mounts)
        \/ \E k \in CallsOn("mount", <<"ro">>) : log[k].o # "ok"

C4_Witness ==
    /\ pc = "raised" /\ exc
    /\ IsRootRo(snap0.mounts) /\ IsRootRo(mounts)
    /\ \E k \in CallsOn("mount", <<"rw">>) : log[k].o = "ok"
    /\ \E k \in Calls("chmod") : log[k].o = "ok" /\ OnRoot(log[k].a)

\* The value the state file holds for a key: that of the last line "key=int".
C5_Hits(sf, key) ==
    {k \in 1..Len(sf.lines) :
        /\ HasEq(Strip(sf.lines[k]))
        /\ SplitKey(Strip(sf.lines[k])) = <<key>>
        /\ ParseInt(SplitVal(Strip(sf.lines[k]))).ok}

C5_Expected(sf, key) ==
    IF ~sf.e \/ C5_Hits(sf, key) = {} THEN 1
    ELSE LET last == CHOOSE k \in C5_Hits(sf, key) : \A j \in C5_Hits(sf, key) : j <= k
         IN  ParseInt(SplitVal(Strip(sf.lines[last]))).n

\* C5: restore_victron_ble() writes, for each setting, the integer the state
\* file holds for its key, and 1 when there is no file or no such integer.
C5_RestoreValues ==
    op = "restore" =>
        /\ \A k \in Calls("SetValue") :
              log[k].v = C5_Expected(snap0.stateFile, log[k].a[1])
        /\ pc = "done" => \A key \in SettingKeys : CallsOn("SetValue", <<key>>) # {}

C5_Witness ==
    /\ pc = "done" /\ op = "restore" /\ snap0.stateFile.e
    /\ \E k \in CallsOn("SetValue", <<"BleSensors">>) : log[k].v = 1 /\ log[k].o = "ok"
    /\ \E k \in CallsOn("SetValue", <<"Bluetooth">>) : log[k].v = -1 /\ log[k].o = "ok"

\* C6: off Venus OS an invocation ends at the wrong-host check, having made no
\* external call and changed nothing.
C6_WrongHostFatal ==
    (~venus /\ pc # "idle") =>
        /\ pc \in {"require", "fatal"}
        /\ log = <<>>
        /\ Sys = snap0

C6_Witness == pc = "fatal" /\ op = "restore" /\ stateFile.e

\* Every step of the function has been attempted.
C7_AllAttempted ==
    /\ \A key \in SettingKeys : CallsOn("SetValue", <<key>>) # {}
    /\ \A p \in Paths : CallsOn("check", p) # {}
    /\ \A n \in ServiceNames :
          IF op = "disable" THEN CallsOn("svstat", <<n>>) # {}
          ELSE CallsOn("svc -u", <<n>>) \cup CallsOn("isdir", <<n>>) # {}

C8_SavedFirst ==
    \A w \in Calls("write_state") : \A k \in Calls("SetValue") : w < k

C8_Holds(key) ==
    /\ <<key>> \in DOMAIN LoadSavedSettings(stateFile)
    /\ LoadSavedSettings(stateFile)[<<key>>] = snap0.settings[key]

C8_Read == {key \in SettingKeys : \E k \in CallsOn("GetValue", <<key>>) : log[k].o = "ok"}

C9_DeleteOnSuccess ==
    (pc = "done" /\ op = "restore") =>
        IF \A k \in Calls("SetValue") : log[k].o = "ok"
        THEN ~stateFile.e
        ELSE stateFile = snap0.stateFile

\* C10: the read-write remount is issued only when root starts read-only, the
\* read-only remount only after a read-write remount that succeeded, and then
\* always; each at most once; a root that starts read-write is never remounted.
C10_RemountScope ==
    /\ Cardinality(CallsOn("mount", <<"rw">>)) <= 1
    /\ Cardinality(CallsOn("mount", <<"ro">>)) <= 1
    /\ CallsOn("mount", <<"rw">>) # {} => IsRootRo(snap0.mounts)
    /\ \A k \in CallsOn("mount", <<"ro">>) :
          \E j \in CallsOn("mount", <<"rw">>) : j < k /\ log[j].o = "ok"
    /\ (pc \in {"done", "remove"} \/ (pc = "raised" /\ exc)) =>
          \A j \in CallsOn("mount", <<"rw">>) :
              log[j].o = "ok" => CallsOn("mount", <<"ro">>) # {}
    /\ ~IsRootRo(snap0.mounts) => Calls("mount") = {} /\ mounts = snap0.mounts

C10_Witness ==
    /\ pc = "done" /\ ~IsRootRo(snap0.mounts) /\ ~IsRootRo(mounts)
    /\ \E k \in Calls("chmod") : log[k].o = "ok" /\ OnRoot(log[k].a)

====
